---- MODULE Spec2Model ----
(***************************************************************************)
(* Verification model of the multimedia-pintos disk path:                  *)
(*   - devices/disk.c : the deadline-ordered disk request queue, its       *)
(*     submitters (disk_schedule_request) and its worker (disk_process);   *)
(*   - filesys/file.c : file_read_at, the sector walker, and the file     *)
(*     handle (file_open ... file_tell).                                   *)
(* Threads interleave at the granularity of the statements of disk.c that  *)
(* touch shared state (the lock, the queue, the heap).  SpecDiskTimed adds *)
(* the timer ticks of the two timer_sleep calls of disk_process.           *)
(***************************************************************************)
EXTENDS Integers, Sequences, FiniteSets, TLC

(***************************************************************************)
(* Bounds of the model.                                                    *)
(***************************************************************************)
\* number of threads that call disk_schedule_request
NumSubmitters == 2
\* number of struct disk_request blocks the kernel heap can hold at once
HeapSize == 2
\* deadlines passed to disk_schedule_request are 1..MaxDeadline
MaxDeadline == 2

\* BLOCK_SECTOR_SIZE, scaled down from the 512 bytes of devices/block.h
BLOCK_SECTOR_SIZE == 3
\* inode_length of the file is 0..MaxLength bytes
MaxLength == 7
\* file_read_at is called with size in 0..MaxSize and file_ofs in 0..MaxOffset
MaxSize == 5
MaxOffset == 8
\* the first data sector of the inode is 0..MaxStart
MaxStart == 1
\* number of struct file blocks the kernel heap can hold at once
MaxHandles == 2
\* file_seek is called with new_pos in -1..MaxSeek or OFF_T_MAX
MaxSeek == 1
\* the file behind the handles is 0..MaxHandleLength bytes long
MaxHandleLength == 1
\* file_read and file_write are called with size in 0..MaxHandleSize
MaxHandleSize == 2

\* the argument of the timer_sleep of the service delay, in timer ticks
ServiceTicks == 100
\* the argument of the timer_sleep of the idle branch, in timer ticks
IdleTicks == 10
\* the clock of the timed specification advances by one idle interval at a
\* time: both sleeps are whole multiples of it
TickStep == IdleTicks
\* the waiting time of a request is counted up to MaxWait ticks
MaxWait == ServiceTicks + TickStep

NULL == 0
Addrs == 1..HeapSize
Worker == 0
Submitters == 1..NumSubmitters
NoThread == -1
Deadlines == 1..MaxDeadline
\* the arguments (sector, is_write, data, deadline) of the disk_schedule_request
\* calls: one combination per deadline; data is the address of a buffer the
\* caller owns
ReqArgs == {[sector |-> d - 1, is_write |-> (d % 2 = 0), data |-> d, deadline |-> d] :
              d \in Deadlines}

VARIABLES
    disk_queue,     \* static struct list disk_queue: the addresses of the queued requests, front first
    disk_lock,      \* static struct lock disk_lock: the thread holding it, or NoThread
    heap,           \* the malloc heap: per address, whether a block is live and the fields of the struct disk_request in it
    s_pc,           \* per submitter: its position in disk_schedule_request
    s_req,          \* per submitter: its local variable req
    w_pc,           \* the worker's position in disk_process
    w_req,          \* the worker's local variable req
    panicked,       \* the kernel has panicked (page fault in kernel context): no thread runs any more
    null_store,     \* a store through a null struct disk_request pointer has been executed
    use_after_free, \* a block was read or written after free()
    double_free,    \* free() was called on a block that is not live
    last_deadline,  \* history: deadline of the request the worker dequeued most recently (0: none yet)
    arrival,        \* history: the queued requests, in the order of their list_insert_ordered calls
    popped_since,   \* history: per queued request, the largest deadline dequeued since it was inserted (0: none)
    outstanding,    \* history: number of requests inserted minus number of requests serviced
    recording,      \* whether last_deadline, arrival and popped_since are recorded (fixed by the initial state)
    timed,          \* whether time is counted (fixed by the initial state); if not, a timer_sleep returns at any time
    w_timer,        \* ticks left of the worker's current timer_sleep
    u_req,          \* history: the queued request that had the smallest deadline of all pending when it was inserted, and still has (NULL: none)
    u_wait,         \* history: ticks since the disk_schedule_request call of u_req returned
    u_busy          \* history: whether the worker held a dequeued request when u_req was inserted

VARIABLES
    inode_start,    \* inode layer: first sector of the file's data
    inode_len,      \* inode layer: inode_length (inode)
    inode_sectors,  \* inode layer: number of leading sectors of the file that are allocated
    r_pc,           \* file_read_at: position ("idle": no call, "loop": at the while test, "ret": at the return)
    r_arg,          \* file_read_at: the arguments size and file_ofs as passed
    r_size,         \* file_read_at: the parameter size, decremented by the loop
    r_ofs,          \* file_read_at: the parameter file_ofs, advanced by the loop
    r_buffer,       \* file_read_at: buffer_ as an index relative to the caller's buffer
    r_bytes_read,   \* file_read_at: bytes_read
    r_mem,          \* memory starting at the caller's buffer: r_mem[i] is the byte at buffer + i
    cache_log,      \* the calls made to the buffer cache during the current file_read_at
    files,          \* the struct file blocks of the heap: per address, whether the block is live, and inode, pos, deny_write
    inode_open_cnt, \* inode layer: number of references to the inode that are open
    inode_deny_cnt, \* inode layer: number of inode_deny_write calls minus number of inode_allow_write calls
    h_op,           \* the most recent call of a file.c function: its name, its file argument, its other argument, its result
    h_log,          \* the calls that call made to the inode layer and the allocator, in order
    asserted        \* an ASSERT of file.c has failed: the kernel has panicked

handle_vars == <<files, inode_open_cnt, inode_deny_cnt, h_op, h_log, asserted>>

file_vars == <<inode_start, inode_len, inode_sectors, r_pc, r_arg, r_size, r_ofs,
               r_buffer, r_bytes_read, r_mem, cache_log, handle_vars>>

disk_vars == <<disk_queue, disk_lock, heap, s_pc, s_req, w_pc, w_req, panicked,
               null_store, use_after_free, double_free, last_deadline, arrival, popped_since, outstanding, recording,
               timed, w_timer, u_req, u_wait, u_busy>>

time_vars == <<w_timer, u_req, u_wait, u_busy>>

urgent_vars == <<u_req, u_wait, u_busy>>

vars == <<disk_vars, file_vars>>

(***************************************************************************)
(* Helpers.                                                                *)
(***************************************************************************)
Range(seq) == {seq[i] : i \in 1..Len(seq)}

Max2(a, b) == IF a >= b THEN a ELSE b

MinOf(S) == CHOOSE x \in S : \A y \in S : x <= y

Remove(seq, x) == SelectSeq(seq, LAMBDA y : y # x)

\* contents of a block that is not allocated
FreeBlock == [live |-> FALSE, sector |-> 0, is_write |-> FALSE, data |-> 0, deadline |-> 0]

\* struct disk_request (disk.h), in a live block
disk_request(sector, is_write, data, deadline) ==
    [live |-> TRUE, sector |-> sector, is_write |-> is_write, data |-> data, deadline |-> deadline]

(***************************************************************************)
(* devices/disk.c                                                          *)
(***************************************************************************)
\* variant of disk_request_compare: the comparison reversed
disk_request_compare_gt(a, b) == heap[a].deadline > heap[b].deadline

\* variant of disk_request_compare: non-strict comparison
disk_request_compare_le(a, b) == heap[a].deadline <= heap[b].deadline

\* disk_request_compare: the list_less_func given to list_insert_ordered
disk_request_compare(a, b) == heap[a].deadline < heap[b].deadline

\* lib/kernel/list.c list_insert_ordered with disk_request_compare: scan from the
\* front, insert ELEM before the first element E for which less(ELEM, E)
list_insert_ordered(list, elem) ==
    LET stop == {i \in 1..Len(list) : disk_request_compare(elem, list[i])}
        pos  == IF stop = {} THEN Len(list) + 1 ELSE MinOf(stop)
    IN  SubSeq(list, 1, pos - 1) \o <<elem>> \o SubSeq(list, pos, Len(list))

\* disk_init
DiskInit ==
    /\ disk_queue = <<>>
    /\ disk_lock = NoThread
    /\ heap = [a \in Addrs |-> FreeBlock]
    /\ s_pc = [s \in Submitters |-> "idle"]
    /\ s_req = [s \in Submitters |-> NULL]
    /\ w_pc = "acquire"
    /\ w_req = NULL
    /\ panicked = FALSE
    /\ null_store = FALSE
    /\ use_after_free = FALSE
    /\ double_free = FALSE
    /\ last_deadline = 0
    /\ arrival = <<>>
    /\ popped_since = [a \in Addrs |-> 0]
    /\ outstanding = 0
    /\ w_timer = 0
    /\ u_req = NULL
    /\ u_wait = 0
    /\ u_busy = FALSE

\* disk_schedule_request, lines 14-19 with malloc succeeding: the block is
\* private to the caller until it is inserted, so the four stores are one step
disk_schedule_request_alloc(s) ==
    /\ ~panicked
    /\ s_pc[s] = "idle"
    /\ \E a \in Addrs, args \in ReqArgs :
         /\ ~heap[a].live
         /\ heap' = [heap EXCEPT ![a] = disk_request(args.sector, args.is_write, args.data, args.deadline)]
         /\ s_req' = [s_req EXCEPT ![s] = a]
    /\ s_pc' = [s_pc EXCEPT ![s] = "acquire"]
    /\ UNCHANGED <<file_vars, recording, timed>>
    /\ UNCHANGED time_vars
    /\ UNCHANGED <<disk_queue, disk_lock, w_pc, w_req, panicked, null_store,
                   use_after_free, double_free, last_deadline, arrival, popped_since, outstanding>>

\* disk_schedule_request, line 15 with malloc returning a null pointer
disk_schedule_request_alloc_fail(s) ==
    /\ ~panicked
    /\ s_pc[s] = "idle"
    /\ s_req' = [s_req EXCEPT ![s] = NULL]
    /\ s_pc' = [s_pc EXCEPT ![s] = "store"]
    /\ UNCHANGED <<file_vars, recording, timed>>
    /\ UNCHANGED time_vars
    /\ UNCHANGED <<disk_queue, disk_lock, heap, w_pc, w_req, panicked, null_store,
                   use_after_free, double_free, last_deadline, arrival, popped_since, outstanding>>

\* disk_schedule_request, line 16 after a failed malloc: req->sector = sector
\* stores through the null pointer.  Pintos maps nothing at virtual page 0, so
\* the store page-faults in kernel context, and the kernel panics.
disk_schedule_request_store_null(s) ==
    /\ ~panicked
    /\ s_pc[s] = "store"
    /\ s_req[s] = NULL
    /\ null_store' = TRUE
    /\ panicked' = TRUE
    /\ s_pc' = [s_pc EXCEPT ![s] = "fault"]
    /\ UNCHANGED <<file_vars, recording, timed>>
    /\ UNCHANGED time_vars
    /\ UNCHANGED <<disk_queue, disk_lock, heap, s_req, w_pc, w_req,
                   use_after_free, double_free, last_deadline, arrival, popped_since, outstanding>>

\* disk_schedule_request, line 21: lock_acquire (&disk_lock)
disk_schedule_request_acquire(s) ==
    /\ ~panicked
    /\ s_pc[s] = "acquire"
    /\ disk_lock = NoThread
    /\ disk_lock' = s
    /\ s_pc' = [s_pc EXCEPT ![s] = "insert"]
    /\ UNCHANGED <<file_vars, recording, timed>>
    /\ UNCHANGED time_vars
    /\ UNCHANGED <<disk_queue, heap, s_req, w_pc, w_req, panicked, null_store,
                   use_after_free, double_free, last_deadline, arrival, popped_since, outstanding>>

\* disk_schedule_request, line 22: list_insert_ordered
disk_schedule_request_insert(s) ==
    /\ ~panicked
    /\ s_pc[s] = "insert"
    /\ disk_queue' = list_insert_ordered(disk_queue, s_req[s])
    /\ LET urgent == timed /\ Head(list_insert_ordered(disk_queue, s_req[s])) = s_req[s]
       IN  /\ u_req' = IF urgent THEN s_req[s] ELSE u_req
           /\ u_wait' = IF urgent THEN 0 ELSE u_wait
           /\ u_busy' = IF urgent THEN w_req # NULL ELSE u_busy
    /\ arrival' = IF recording THEN Append(arrival, s_req[s]) ELSE arrival
    /\ popped_since' = IF recording THEN [popped_since EXCEPT ![s_req[s]] = 0] ELSE popped_since
    /\ outstanding' = outstanding + 1
    /\ s_pc' = [s_pc EXCEPT ![s] = "release"]
    /\ UNCHANGED <<file_vars, recording, timed>>
    /\ UNCHANGED w_timer
    /\ UNCHANGED <<disk_lock, heap, s_req, w_pc, w_req, panicked, null_store,
                   use_after_free, double_free, last_deadline>>

\* disk_schedule_request, lines 23-24: lock_release (&disk_lock) and return
disk_schedule_request_release(s) ==
    /\ ~panicked
    /\ s_pc[s] = "release"
    /\ disk_lock' = NoThread
    /\ s_pc' = [s_pc EXCEPT ![s] = "idle"]
    /\ s_req' = [s_req EXCEPT ![s] = NULL]
    /\ UNCHANGED <<file_vars, recording, timed>>
    /\ UNCHANGED time_vars
    /\ UNCHANGED <<disk_queue, heap, w_pc, w_req, panicked, null_store,
                   use_after_free, double_free, last_deadline, arrival, popped_since, outstanding>>

disk_schedule_request(s) ==
    \/ disk_schedule_request_alloc(s)
    \/ disk_schedule_request_alloc_fail(s)
    \/ disk_schedule_request_store_null(s)
    \/ disk_schedule_request_acquire(s)
    \/ disk_schedule_request_insert(s)
    \/ disk_schedule_request_release(s)

\* disk_process, lines 34-36: req = NULL; lock_acquire (&disk_lock)
disk_process_acquire ==
    /\ ~panicked
    /\ w_pc = "acquire"
    /\ disk_lock = NoThread
    /\ disk_lock' = Worker
    /\ w_req' = NULL
    /\ w_pc' = "check"
    /\ UNCHANGED <<file_vars, recording, timed>>
    /\ UNCHANGED time_vars
    /\ UNCHANGED <<disk_queue, heap, s_pc, s_req, panicked, null_store,
                   use_after_free, double_free, last_deadline, arrival, popped_since, outstanding>>

\* variant of disk_process_pop: list_front in place of list_pop_front (the
\* request is taken but stays in the queue)
disk_process_pop_keep ==
    /\ ~panicked
    /\ w_pc = "check"
    /\ disk_queue # <<>>
    /\ w_req' = Head(disk_queue)
    /\ last_deadline' = IF recording THEN heap[Head(disk_queue)].deadline ELSE last_deadline
    /\ w_pc' = "release_pop"
    /\ UNCHANGED <<file_vars, recording, timed>>
    /\ UNCHANGED time_vars
    /\ UNCHANGED <<disk_queue, disk_lock, heap, s_pc, s_req, panicked, null_store,
                   use_after_free, double_free, arrival, popped_since, outstanding>>

\* variant of disk_process_pop: list_pop_back in place of list_pop_front
disk_process_pop_back ==
    /\ ~panicked
    /\ w_pc = "check"
    /\ disk_queue # <<>>
    /\ LET last == disk_queue[Len(disk_queue)]
           rest == SubSeq(disk_queue, 1, Len(disk_queue) - 1)
       IN  /\ w_req' = last
           /\ disk_queue' = rest
           /\ last_deadline' = IF recording THEN heap[last].deadline ELSE last_deadline
           /\ arrival' = IF recording THEN Remove(arrival, last) ELSE arrival
           /\ popped_since' = IF recording
                              THEN [a \in Addrs |->
                                      IF a \in Range(rest)
                                      THEN Max2(popped_since[a], heap[last].deadline)
                                      ELSE 0]
                              ELSE popped_since
    /\ w_pc' = "release_pop"
    /\ UNCHANGED <<file_vars, recording, timed>>
    /\ u_req' = IF disk_queue[Len(disk_queue)] = u_req THEN NULL ELSE u_req
    /\ u_wait' = IF disk_queue[Len(disk_queue)] = u_req THEN 0 ELSE u_wait
    /\ u_busy' = IF disk_queue[Len(disk_queue)] = u_req THEN FALSE ELSE u_busy
    /\ UNCHANGED w_timer
    /\ UNCHANGED <<disk_lock, heap, s_pc, s_req, panicked, null_store,
                   use_after_free, double_free, outstanding>>

\* disk_process, lines 37-38: the queue is not empty; list_pop_front
disk_process_pop ==
    /\ ~panicked
    /\ w_pc = "check"
    /\ disk_queue # <<>>
    /\ w_req' = Head(disk_queue)
    /\ disk_queue' = Tail(disk_queue)
    /\ last_deadline' = IF recording THEN heap[Head(disk_queue)].deadline ELSE last_deadline
    /\ arrival' = IF recording THEN Remove(arrival, Head(disk_queue)) ELSE arrival
    /\ popped_since' = IF recording
                       THEN [a \in Addrs |->
                               IF a \in Range(Tail(disk_queue))
                               THEN Max2(popped_since[a], heap[Head(disk_queue)].deadline)
                               ELSE 0]
                       ELSE popped_since
    /\ w_pc' = "release_pop"
    /\ UNCHANGED <<file_vars, recording, timed>>
    /\ u_req' = IF Head(disk_queue) = u_req THEN NULL ELSE u_req
    /\ u_wait' = IF Head(disk_queue) = u_req THEN 0 ELSE u_wait
    /\ u_busy' = IF Head(disk_queue) = u_req THEN FALSE ELSE u_busy
    /\ UNCHANGED w_timer
    /\ UNCHANGED <<disk_lock, heap, s_pc, s_req, panicked, null_store,
                   use_after_free, double_free, outstanding>>

\* disk_process, line 37: the queue is empty, take the else branch
disk_process_empty ==
    /\ ~panicked
    /\ w_pc = "check"
    /\ disk_queue = <<>>
    /\ w_pc' = "release_empty"
    /\ UNCHANGED <<file_vars, recording, timed>>
    /\ UNCHANGED time_vars
    /\ UNCHANGED <<disk_queue, disk_lock, heap, s_pc, s_req, w_req, panicked, null_store,
                   use_after_free, double_free, last_deadline, arrival, popped_since, outstanding>>

\* variant of disk_process_release_pop: the lock_release of line 39 is missing
disk_process_release_pop_missing ==
    /\ ~panicked
    /\ w_pc = "release_pop"
    /\ w_pc' = "service"
    /\ UNCHANGED <<file_vars, recording, timed>>
    /\ w_timer' = IF timed THEN ServiceTicks ELSE 0
    /\ UNCHANGED urgent_vars
    /\ UNCHANGED <<disk_queue, disk_lock, heap, s_pc, s_req, w_req, panicked, null_store,
                   use_after_free, double_free, last_deadline, arrival, popped_since, outstanding>>

\* disk_process, line 39: lock_release (&disk_lock) after the pop; the worker
\* arrives at the printf and the timer_sleep (100) of lines 42-43
disk_process_release_pop ==
    /\ ~panicked
    /\ w_pc = "release_pop"
    /\ disk_lock' = NoThread
    /\ w_pc' = "service"
    /\ UNCHANGED <<file_vars, recording, timed>>
    /\ w_timer' = IF timed THEN ServiceTicks ELSE 0
    /\ UNCHANGED urgent_vars
    /\ UNCHANGED <<disk_queue, heap, s_pc, s_req, w_req, panicked, null_store,
                   use_after_free, double_free, last_deadline, arrival, popped_since, outstanding>>

\* disk_process, lines 42-43: printf reads req->is_write and req->sector, then timer_sleep (100)
disk_process_service ==
    /\ ~panicked
    /\ w_pc = "service"
    /\ w_timer = 0
    /\ use_after_free' = (use_after_free \/ ~heap[w_req].live)
    /\ outstanding' = outstanding - 1
    /\ w_pc' = "free"
    /\ UNCHANGED <<file_vars, recording, timed>>
    /\ UNCHANGED time_vars
    /\ UNCHANGED <<disk_queue, disk_lock, heap, s_pc, s_req, w_req, panicked, null_store,
                   double_free, last_deadline, arrival, popped_since>>

\* disk_process, line 45: free (req), then the next iteration of while (true)
disk_process_free ==
    /\ ~panicked
    /\ w_pc = "free"
    /\ double_free' = (double_free \/ ~heap[w_req].live)
    /\ heap' = [heap EXCEPT ![w_req] = FreeBlock]
    /\ w_req' = NULL
    /\ w_pc' = "acquire"
    /\ UNCHANGED <<file_vars, recording, timed>>
    /\ UNCHANGED time_vars
    /\ UNCHANGED <<disk_queue, disk_lock, s_pc, s_req, panicked, null_store,
                   use_after_free, last_deadline, arrival, popped_since, outstanding>>

\* variant of disk_process_release_empty: the lock_release of line 47 comes
\* after the timer_sleep instead of before it
disk_process_release_empty_late ==
    /\ ~panicked
    /\ w_pc = "release_empty"
    /\ w_pc' = "idle_sleep"
    /\ UNCHANGED <<file_vars, recording, timed>>
    /\ w_timer' = IF timed THEN IdleTicks ELSE 0
    /\ UNCHANGED urgent_vars
    /\ UNCHANGED <<disk_queue, disk_lock, heap, s_pc, s_req, w_req, panicked, null_store,
                   use_after_free, double_free, last_deadline, arrival, popped_since, outstanding>>

\* variant of disk_process_release_empty: no timer_sleep in the else branch,
\* the worker goes straight to the next iteration
disk_process_release_empty_spin ==
    /\ ~panicked
    /\ w_pc = "release_empty"
    /\ disk_lock' = NoThread
    /\ w_pc' = "acquire"
    /\ UNCHANGED <<file_vars, recording, timed>>
    /\ UNCHANGED time_vars
    /\ UNCHANGED <<disk_queue, heap, s_pc, s_req, w_req, panicked, null_store,
                   use_after_free, double_free, last_deadline, arrival, popped_since, outstanding>>

\* variant of disk_process_release_empty: the idle sleep is as long as the service delay
disk_process_release_empty_long ==
    /\ ~panicked
    /\ w_pc = "release_empty"
    /\ disk_lock' = NoThread
    /\ w_pc' = "idle_sleep"
    /\ w_timer' = IF timed THEN ServiceTicks ELSE 0
    /\ UNCHANGED urgent_vars
    /\ UNCHANGED <<file_vars, recording, timed>>
    /\ UNCHANGED <<disk_queue, heap, s_pc, s_req, w_req, panicked, null_store,
                   use_after_free, double_free, last_deadline, arrival, popped_since, outstanding>>

\* disk_process, line 47: lock_release (&disk_lock) in the else branch; the
\* worker arrives at the timer_sleep (10) of line 48
disk_process_release_empty ==
    /\ ~panicked
    /\ w_pc = "release_empty"
    /\ disk_lock' = NoThread
    /\ w_pc' = "idle_sleep"
    /\ UNCHANGED <<file_vars, recording, timed>>
    /\ w_timer' = IF timed THEN IdleTicks ELSE 0
    /\ UNCHANGED urgent_vars
    /\ UNCHANGED <<disk_queue, heap, s_pc, s_req, w_req, panicked, null_store,
                   use_after_free, double_free, last_deadline, arrival, popped_since, outstanding>>

\* variant of disk_process_idle: the worker leaves the loop when it finds the queue empty
disk_process_idle_exit ==
    /\ ~panicked
    /\ w_pc = "idle_sleep"
    /\ w_timer = 0
    /\ w_pc' = "exit"
    /\ UNCHANGED <<file_vars, recording, timed>>
    /\ UNCHANGED time_vars
    /\ UNCHANGED <<disk_queue, disk_lock, heap, s_pc, s_req, w_req, panicked, null_store,
                   use_after_free, double_free, last_deadline, arrival, popped_since, outstanding>>

\* disk_process, line 48: timer_sleep (10), then the next iteration of while (true)
disk_process_idle ==
    /\ ~panicked
    /\ w_pc = "idle_sleep"
    /\ w_timer = 0
    /\ w_pc' = "acquire"
    /\ UNCHANGED <<file_vars, recording, timed>>
    /\ UNCHANGED time_vars
    /\ UNCHANGED <<disk_queue, disk_lock, heap, s_pc, s_req, w_req, panicked, null_store,
                   use_after_free, double_free, last_deadline, arrival, popped_since, outstanding>>

disk_process ==
    \/ disk_process_acquire
    \/ disk_process_pop
    \/ disk_process_empty
    \/ disk_process_release_pop
    \/ disk_process_service
    \/ disk_process_free
    \/ disk_process_release_empty
    \/ disk_process_idle

DiskNext ==
    \/ \E s \in Submitters : disk_schedule_request(s)
    \/ disk_process

(***************************************************************************)
(* filesys/file.c: file_read_at                                            *)
(***************************************************************************)
\* content of a byte of memory the cache has not written
Junk == -1

\* memory from the caller's buffer on: the size bytes of the buffer, then
\* whatever follows it, as far as a whole-sector copy can reach
MemIndex == 0..(MaxSize + BLOCK_SECTOR_SIZE - 1)

Min2(a, b) == IF a < b THEN a ELSE b

\* the byte at offset j of disk sector sec (every byte of the disk is distinct)
sector_data(sec, j) == sec * BLOCK_SECTOR_SIZE + j

\* inode layer, byte_to_sector: the sector holding byte offset pos of the
\* file, or -1 when no sector is mapped there
byte_to_sector(pos) ==
    IF pos < inode_len /\ pos \div BLOCK_SECTOR_SIZE < inode_sectors
    THEN inode_start + pos \div BLOCK_SECTOR_SIZE
    ELSE -1

\* inode layer, inode_length
inode_length == inode_len

\* buffer cache, buffer_cache_read (sector, dst): copies the whole sector to dst
buffer_cache_read(mem, sector_idx, dst) ==
    [i \in MemIndex |->
        IF dst <= i /\ i < dst + BLOCK_SECTOR_SIZE
        THEN sector_data(sector_idx, i - dst)
        ELSE mem[i]]

\* variant of chunk_size: the bytes left in the inode are not taken into account
chunk_size_no_inode_left(size, file_ofs) ==
    LET sector_ofs  == file_ofs % BLOCK_SECTOR_SIZE
        sector_left == BLOCK_SECTOR_SIZE - sector_ofs
    IN  Min2(size, sector_left)

\* file_read_at, lines 91-99: the number of bytes to take from this sector
chunk_size(size, file_ofs) ==
    LET sector_ofs  == file_ofs % BLOCK_SECTOR_SIZE
        inode_left  == inode_length - file_ofs
        sector_left == BLOCK_SECTOR_SIZE - sector_ofs
        min_left    == IF inode_left < sector_left THEN inode_left ELSE sector_left
    IN  IF size < min_left THEN size ELSE min_left

\* sectors needed to hold len bytes
SectorsFor(len) == (len + BLOCK_SECTOR_SIZE - 1) \div BLOCK_SECTOR_SIZE

\* the address of the struct inode of the file
INODE == 1
\* the addresses of the struct file blocks
Handles == 1..MaxHandles
\* the largest off_t (int32_t)
OFF_T_MAX == 2147483647

\* off_t addition of a count b >= 0: two's complement, 32 bits (a sum above
\* OFF_T_MAX wraps around to a + b - 2^32)
Add32(a, b) ==
    IF a > 0 /\ b > OFF_T_MAX - a
    THEN ((a - OFF_T_MAX) - 1) + ((b - OFF_T_MAX) - 1)
    ELSE a + b

\* contents of a struct file block that is not allocated
FreeFile == [live |-> FALSE, inode |-> NULL, pos |-> 0, deny_write |-> FALSE]

\* the record of a call: function, file argument, other argument, result
Call(op, file, arg, ret) == [op |-> op, file |-> file, arg |-> arg, ret |-> ret]

NoCall == Call("none", NULL, 0, 0)

\* no file.c function has been called and no file is open
NoHandles ==
    /\ files = [h \in Handles |-> FreeFile]
    /\ inode_open_cnt = 0
    /\ inode_deny_cnt = 0
    /\ h_op = NoCall
    /\ h_log = <<>>
    /\ asserted = FALSE

\* one file is open, by a file_open that has returned the first block
OneHandle ==
    /\ files = [h \in Handles |-> IF h = 1
                                  THEN [live |-> TRUE, inode |-> INODE, pos |-> 0, deny_write |-> FALSE]
                                  ELSE FreeFile]
    /\ inode_open_cnt = 1
    /\ inode_deny_cnt = 0
    /\ h_op = NoCall
    /\ h_log = <<>>
    /\ asserted = FALSE

\* file_read_at is not running
ReadIdle ==
    /\ r_pc = "idle"
    /\ r_arg = [size |-> 0, file_ofs |-> 0]
    /\ r_size = 0
    /\ r_ofs = 0
    /\ r_buffer = 0
    /\ r_bytes_read = 0
    /\ r_mem = [i \in MemIndex |-> Junk]
    /\ cache_log = <<>>

\* an open file over an inode of some length, whose leading sectors are allocated
FileInit ==
    /\ inode_start \in 0..MaxStart
    /\ inode_len \in 0..MaxLength
    /\ inode_sectors \in 0..SectorsFor(inode_len)
    /\ ReadIdle
    /\ OneHandle

\* no file is open
NoFile ==
    /\ inode_start = 0
    /\ inode_len = 0
    /\ inode_sectors = 0
    /\ ReadIdle
    /\ NoHandles

\* file_read_at, lines 81-84: entry
file_read_at_call ==
    /\ r_pc = "idle"
    /\ \E size \in 0..MaxSize, file_ofs \in 0..MaxOffset :
         /\ r_arg' = [size |-> size, file_ofs |-> file_ofs]
         /\ r_size' = size
         /\ r_ofs' = file_ofs
    /\ r_buffer' = 0
    /\ r_bytes_read' = 0
    /\ r_mem' = [i \in MemIndex |-> Junk]
    /\ cache_log' = <<>>
    /\ r_pc' = "loop"
    /\ UNCHANGED <<inode_start, inode_len, inode_sectors>>
    /\ UNCHANGED handle_vars
    /\ UNCHANGED disk_vars

\* file_read_at, lines 85-113: the while test and one pass of the loop body
file_read_at_loop ==
    /\ r_pc = "loop"
    /\ LET sector_idx == byte_to_sector(r_ofs)
           chunk      == chunk_size(r_size, r_ofs)
       IN  IF r_size > 0 /\ sector_idx # -1 /\ chunk > 0
           THEN /\ r_mem' = buffer_cache_read(r_mem, sector_idx, r_buffer)
                /\ r_buffer' = r_buffer + chunk
                /\ r_ofs' = r_ofs + chunk
                /\ r_size' = r_size - chunk
                /\ r_bytes_read' = r_bytes_read + chunk
                /\ cache_log' = cache_log \o <<<<"buffer_cache_read", sector_idx>>,
                                                <<"cache_read_ahead", sector_idx>>>>
                /\ r_pc' = "loop"
           ELSE /\ r_pc' = "ret"
                /\ UNCHANGED <<r_mem, r_buffer, r_ofs, r_size, r_bytes_read, cache_log>>
    /\ UNCHANGED <<inode_start, inode_len, inode_sectors, r_arg>>
    /\ UNCHANGED handle_vars
    /\ UNCHANGED disk_vars

\* file_read_at, line 114: return bytes_read
file_read_at_return ==
    /\ r_pc = "ret"
    /\ r_pc' = "idle"
    /\ r_arg' = [size |-> 0, file_ofs |-> 0]
    /\ r_size' = 0
    /\ r_ofs' = 0
    /\ r_buffer' = 0
    /\ r_bytes_read' = 0
    /\ r_mem' = [i \in MemIndex |-> Junk]
    /\ cache_log' = <<>>
    /\ UNCHANGED <<inode_start, inode_len, inode_sectors>>
    /\ UNCHANGED handle_vars
    /\ UNCHANGED disk_vars

FileNext ==
    \/ file_read_at_call
    \/ file_read_at_loop
    \/ file_read_at_return

(***************************************************************************)
(* filesys/file.c: the file handle.  A handle has one owner at a time, so  *)
(* every function of the handle runs as one step.                          *)
(***************************************************************************)
inode_vars == <<inode_start, inode_len, inode_sectors>>

read_vars == <<r_pc, r_arg, r_size, r_ofs, r_buffer, r_bytes_read, r_mem, cache_log>>

\* the struct file blocks that are allocated
LiveHandles == {h \in Handles : files[h].live}

\* inode layer: inode_close drops one reference; a null inode is ignored
inode_close(cnt, inode) == IF inode = NULL THEN cnt ELSE cnt - 1

\* inode layer: inode_reopen adds one reference; a null inode is ignored
inode_reopen(cnt, inode) == IF inode = NULL THEN cnt ELSE cnt + 1

\* inode layer: inode_read_at returns the number of bytes of
\* [offset, offset + size) that lie before the end of the file
inode_read_at(size, offset) ==
    IF size > 0 /\ offset < inode_length THEN Min2(size, inode_length - offset) ELSE 0

\* inode layer: inode_write_at writes nothing while writes are denied, and
\* does not grow the file
inode_write_at(size, offset) ==
    IF inode_deny_cnt > 0 THEN 0 ELSE inode_read_at(size, offset)

\* the value file_read_at returns: bytes_read after the loop of lines 85-113
RECURSIVE sector_walk(_, _, _)
sector_walk(size, file_ofs, bytes_read) ==
    LET sector_idx == byte_to_sector(file_ofs)
        chunk      == chunk_size(size, file_ofs)
    IN  IF size > 0 /\ sector_idx # -1 /\ chunk > 0
        THEN sector_walk(size - chunk, file_ofs + chunk, bytes_read + chunk)
        ELSE bytes_read

\* variant of file_open: the failure branch frees the block but does not close the inode
file_open_no_close(inode, cnt, log, op, file_arg) ==
    \E file \in (Handles \ LiveHandles) \cup {NULL} :
        IF inode # NULL /\ file # NULL
        THEN /\ files' = [files EXCEPT ![file] =
                             [live |-> TRUE, inode |-> inode, pos |-> 0, deny_write |-> FALSE]]
             /\ inode_open_cnt' = cnt
             /\ h_log' = log \o <<<<"calloc", file>>>>
             /\ h_op' = Call(op, file_arg, inode, file)
        ELSE /\ files' = IF file = NULL THEN files ELSE [files EXCEPT ![file] = FreeFile]
             /\ inode_open_cnt' = cnt
             /\ h_log' = log \o <<<<"calloc", file>>, <<"free", file>>>>
             /\ h_op' = Call(op, file_arg, inode, NULL)

\* file_open, lines 17-34, entered with cnt references to the inode open:
\* calloc returns a free block or a null pointer
file_open(inode, cnt, log, op, file_arg) ==
    \E file \in (Handles \ LiveHandles) \cup {NULL} :
        IF inode # NULL /\ file # NULL
        THEN /\ files' = [files EXCEPT ![file] =
                             [live |-> TRUE, inode |-> inode, pos |-> 0, deny_write |-> FALSE]]
             /\ inode_open_cnt' = cnt
             /\ h_log' = log \o <<<<"calloc", file>>>>
             /\ h_op' = Call(op, file_arg, inode, file)
        ELSE /\ files' = IF file = NULL THEN files ELSE [files EXCEPT ![file] = FreeFile]
             /\ inode_open_cnt' = inode_close(cnt, inode)
             /\ h_log' = log \o <<<<"calloc", file>>, <<"inode_close", inode>>, <<"free", file>>>>
             /\ h_op' = Call(op, file_arg, inode, NULL)

\* a caller passes file_open an inode reference it has opened, or a null inode
file_open_call ==
    /\ ~asserted
    /\ \E inode \in {NULL, INODE} :
         file_open(inode, inode_reopen(inode_open_cnt, inode), <<>>, "file_open", NULL)
    /\ UNCHANGED <<inode_deny_cnt, asserted>>
    /\ UNCHANGED <<inode_vars, read_vars>>
    /\ UNCHANGED disk_vars

\* file_reopen, lines 38-42
file_reopen ==
    /\ ~asserted
    /\ \E file \in LiveHandles :
         file_open(files[file].inode, inode_reopen(inode_open_cnt, files[file].inode),
                   <<<<"inode_reopen", files[file].inode>>>>, "file_reopen", file)
    /\ UNCHANGED <<inode_deny_cnt, asserted>>
    /\ UNCHANGED <<inode_vars, read_vars>>
    /\ UNCHANGED disk_vars

\* variant of file_close: inode_close comes before file_allow_write
file_close_order(file) ==
    IF file = NULL
    THEN /\ h_op' = Call("file_close", NULL, 0, 0)
         /\ h_log' = <<>>
         /\ UNCHANGED <<files, inode_open_cnt, inode_deny_cnt>>
    ELSE /\ files' = [files EXCEPT ![file] = FreeFile]
         /\ inode_deny_cnt' = IF files[file].deny_write THEN inode_deny_cnt - 1 ELSE inode_deny_cnt
         /\ inode_open_cnt' = inode_close(inode_open_cnt, files[file].inode)
         /\ h_log' = <<<<"inode_close", files[file].inode>>>>
                       \o (IF files[file].deny_write
                           THEN <<<<"inode_allow_write", files[file].inode>>>> ELSE <<>>)
                       \o <<<<"free", file>>>>
         /\ h_op' = Call("file_close", file, 0, 0)

\* file_close, lines 45-54: file_allow_write (file), inode_close (file->inode), free (file)
file_close(file) ==
    IF file = NULL
    THEN /\ h_op' = Call("file_close", NULL, 0, 0)
         /\ h_log' = <<>>
         /\ UNCHANGED <<files, inode_open_cnt, inode_deny_cnt>>
    ELSE /\ files' = [files EXCEPT ![file] = FreeFile]
         /\ inode_deny_cnt' = IF files[file].deny_write THEN inode_deny_cnt - 1 ELSE inode_deny_cnt
         /\ inode_open_cnt' = inode_close(inode_open_cnt, files[file].inode)
         /\ h_log' = (IF files[file].deny_write
                      THEN <<<<"inode_allow_write", files[file].inode>>>> ELSE <<>>)
                       \o <<<<"inode_close", files[file].inode>>, <<"free", file>>>>
         /\ h_op' = Call("file_close", file, 0, 0)

\* a caller closes one of its handles, or passes file_close a null pointer
file_close_call ==
    /\ ~asserted
    /\ \E file \in LiveHandles \cup {NULL} : file_close(file)
    /\ UNCHANGED asserted
    /\ UNCHANGED <<inode_vars, read_vars>>
    /\ UNCHANGED disk_vars

\* file_get_inode, lines 57-61
file_get_inode ==
    /\ ~asserted
    /\ \E file \in LiveHandles :
         h_op' = Call("file_get_inode", file, 0, files[file].inode)
    /\ h_log' = <<>>
    /\ UNCHANGED <<files, inode_open_cnt, inode_deny_cnt, asserted>>
    /\ UNCHANGED <<inode_vars, read_vars>>
    /\ UNCHANGED disk_vars

\* variant of file_read: the position is advanced by the size asked for
file_read_by_size(file, size) ==
    LET bytes_read == inode_read_at(size, files[file].pos)
    IN  /\ files' = [files EXCEPT ![file].pos = Add32(files[file].pos, size)]
        /\ h_op' = Call("file_read", file, 0, bytes_read)

\* file_read, lines 68-74
file_read(file, size) ==
    LET bytes_read == inode_read_at(size, files[file].pos)
    IN  /\ files' = [files EXCEPT ![file].pos = Add32(files[file].pos, bytes_read)]
        /\ h_op' = Call("file_read", file, 0, bytes_read)

file_read_call ==
    /\ ~asserted
    /\ \E file \in LiveHandles, size \in 0..MaxHandleSize : file_read(file, size)
    /\ h_log' = <<<<"inode_read_at", INODE>>>>
    /\ UNCHANGED <<inode_open_cnt, inode_deny_cnt, asserted>>
    /\ UNCHANGED <<inode_vars, read_vars>>
    /\ UNCHANGED disk_vars

\* variant of file_read_at: the position follows the bytes read, as in file_read
file_read_at_moves_pos(file, size, file_ofs) ==
    /\ files' = [files EXCEPT ![file].pos = file_ofs + sector_walk(size, file_ofs, 0)]
    /\ h_op' = Call("file_read_at", file, 0, sector_walk(size, file_ofs, 0))

\* file_read_at, lines 81-115, as one step: its effect on the handle and its result
file_read_at(file, size, file_ofs) ==
    /\ files' = files
    /\ h_op' = Call("file_read_at", file, 0, sector_walk(size, file_ofs, 0))

file_read_at_whole ==
    /\ ~asserted
    /\ \E file \in LiveHandles, size \in 0..MaxHandleSize, file_ofs \in 0..MaxSeek :
         file_read_at(file, size, file_ofs)
    /\ h_log' = <<>>
    /\ UNCHANGED <<inode_open_cnt, inode_deny_cnt, asserted>>
    /\ UNCHANGED <<inode_vars, read_vars>>
    /\ UNCHANGED disk_vars

\* file_write, lines 124-130
file_write(file, size) ==
    LET bytes_written == inode_write_at(size, files[file].pos)
    IN  /\ files' = [files EXCEPT ![file].pos = Add32(files[file].pos, bytes_written)]
        /\ h_op' = Call("file_write", file, 0, bytes_written)

file_write_call ==
    /\ ~asserted
    /\ \E file \in LiveHandles, size \in 0..MaxHandleSize : file_write(file, size)
    /\ h_log' = <<<<"inode_write_at", INODE>>>>
    /\ UNCHANGED <<inode_open_cnt, inode_deny_cnt, asserted>>
    /\ UNCHANGED <<inode_vars, read_vars>>
    /\ UNCHANGED disk_vars

\* file_write_at, lines 139-144
file_write_at ==
    /\ ~asserted
    /\ \E file \in LiveHandles, size \in 0..MaxHandleSize, file_ofs \in 0..MaxSeek :
         h_op' = Call("file_write_at", file, 0, inode_write_at(size, file_ofs))
    /\ h_log' = <<<<"inode_write_at", INODE>>>>
    /\ UNCHANGED <<files, inode_open_cnt, inode_deny_cnt, asserted>>
    /\ UNCHANGED <<inode_vars, read_vars>>
    /\ UNCHANGED disk_vars

\* variant of file_deny_write: inode_deny_write is called whether or not the
\* handle already denies writes
file_deny_write_always(file) ==
    /\ files' = [files EXCEPT ![file].deny_write = TRUE]
    /\ inode_deny_cnt' = inode_deny_cnt + 1
    /\ h_log' = <<<<"inode_deny_write", files[file].inode>>>>
    /\ h_op' = Call("file_deny_write", file, 0, 0)

\* file_deny_write, lines 148-157
file_deny_write(file) ==
    /\ IF ~files[file].deny_write
       THEN /\ files' = [files EXCEPT ![file].deny_write = TRUE]
            /\ inode_deny_cnt' = inode_deny_cnt + 1
            /\ h_log' = <<<<"inode_deny_write", files[file].inode>>>>
       ELSE /\ h_log' = <<>>
            /\ UNCHANGED <<files, inode_deny_cnt>>
    /\ h_op' = Call("file_deny_write", file, 0, 0)

file_deny_write_call ==
    /\ ~asserted
    /\ \E file \in LiveHandles : file_deny_write(file)
    /\ UNCHANGED <<inode_open_cnt, asserted>>
    /\ UNCHANGED <<inode_vars, read_vars>>
    /\ UNCHANGED disk_vars

\* file_allow_write, lines 162-171
file_allow_write ==
    /\ ~asserted
    /\ \E file \in LiveHandles :
         /\ IF files[file].deny_write
            THEN /\ files' = [files EXCEPT ![file].deny_write = FALSE]
                 /\ inode_deny_cnt' = inode_deny_cnt - 1
                 /\ h_log' = <<<<"inode_allow_write", files[file].inode>>>>
            ELSE /\ h_log' = <<>>
                 /\ UNCHANGED <<files, inode_deny_cnt>>
         /\ h_op' = Call("file_allow_write", file, 0, 0)
    /\ UNCHANGED <<inode_open_cnt, asserted>>
    /\ UNCHANGED <<inode_vars, read_vars>>
    /\ UNCHANGED disk_vars

\* file_length, lines 174-179
file_length ==
    /\ ~asserted
    /\ \E file \in LiveHandles : h_op' = Call("file_length", file, 0, inode_length)
    /\ h_log' = <<<<"inode_length", INODE>>>>
    /\ UNCHANGED <<files, inode_open_cnt, inode_deny_cnt, asserted>>
    /\ UNCHANGED <<inode_vars, read_vars>>
    /\ UNCHANGED disk_vars

\* the values of new_pos that callers pass to file_seek
SeekArgs == (-1..MaxSeek) \cup {OFF_T_MAX}

\* variant of file_seek: the ASSERT (new_pos >= 0) is missing
file_seek_unchecked(file, new_pos) ==
    /\ files' = [files EXCEPT ![file].pos = new_pos]
    /\ asserted' = asserted
    /\ h_op' = Call("file_seek", file, new_pos, 0)

\* file_seek, lines 183-189: a failed ASSERT panics the kernel
file_seek(file, new_pos) ==
    /\ IF new_pos >= 0
       THEN /\ files' = [files EXCEPT ![file].pos = new_pos]
            /\ asserted' = asserted
       ELSE /\ asserted' = TRUE
            /\ files' = files
    /\ h_op' = Call("file_seek", file, new_pos, 0)

file_seek_call ==
    /\ ~asserted
    /\ \E file \in LiveHandles, new_pos \in SeekArgs : file_seek(file, new_pos)
    /\ h_log' = <<>>
    /\ UNCHANGED <<inode_open_cnt, inode_deny_cnt>>
    /\ UNCHANGED <<inode_vars, read_vars>>
    /\ UNCHANGED disk_vars

\* file_tell, lines 193-198
file_tell ==
    /\ ~asserted
    /\ \E file \in LiveHandles : h_op' = Call("file_tell", file, 0, files[file].pos)
    /\ h_log' = <<>>
    /\ UNCHANGED <<files, inode_open_cnt, inode_deny_cnt, asserted>>
    /\ UNCHANGED <<inode_vars, read_vars>>
    /\ UNCHANGED disk_vars

HandleNext ==
    \/ file_open_call
    \/ file_reopen
    \/ file_close_call
    \/ file_get_inode
    \/ file_read_call
    \/ file_read_at_whole
    \/ file_write_call
    \/ file_write_at
    \/ file_deny_write_call
    \/ file_allow_write
    \/ file_length
    \/ file_seek_call
    \/ file_tell

\* a fully allocated file of some length, no handle open yet
HandleInit ==
    /\ inode_start = 0
    /\ inode_len \in 0..MaxHandleLength
    /\ inode_sectors = SectorsFor(inode_len)
    /\ ReadIdle
    /\ NoHandles

\* the scheduler after disk_init, a file on the disk
InitHandle == DiskInit /\ HandleInit /\ recording = FALSE /\ timed = FALSE

SpecHandle == InitHandle /\ [][HandleNext]_vars

\* the scheduler after disk_init, no file open, the history recorded
InitDisk == DiskInit /\ NoFile /\ recording = TRUE /\ timed = FALSE

\* the scheduler after disk_init, no file open, the history not recorded
InitDiskFair == DiskInit /\ NoFile /\ recording = FALSE /\ timed = FALSE

\* the scheduler after disk_init, no file open, time counted
InitDiskTimed == DiskInit /\ NoFile /\ recording = FALSE /\ timed = TRUE

\* the scheduler after disk_init, one file open
InitFile == DiskInit /\ FileInit /\ recording = TRUE /\ timed = FALSE

SpecDisk == InitDisk /\ [][DiskNext]_vars

SpecFile == InitFile /\ [][FileNext]_vars

\* The timer interrupt: TickStep ticks pass.  Time passes only while the
\* worker is in a timer_sleep and no disk_schedule_request call is in
\* progress: the statements of disk.c other than the sleeps take no time.
Tick ==
    /\ timed
    /\ ~panicked
    /\ w_timer > 0
    /\ \A s \in Submitters : s_pc[s] = "idle"
    /\ w_timer' = Max2(w_timer - TickStep, 0)
    /\ u_wait' = IF u_req # NULL THEN Min2(u_wait + TickStep, MaxWait) ELSE u_wait
    /\ UNCHANGED <<file_vars, recording, timed, u_req, u_busy>>
    /\ UNCHANGED <<disk_queue, disk_lock, heap, s_pc, s_req, w_pc, w_req, panicked, null_store,
                   use_after_free, double_free, last_deadline, arrival, popped_since, outstanding>>

DiskTimedNext ==
    \/ \E s \in Submitters : disk_schedule_request(s)
    \/ disk_process
    \/ Tick

SpecDiskTimed == InitDiskTimed /\ [][DiskTimedNext]_vars

\* the steps of a disk_schedule_request call that has started
disk_schedule_request_running(s) ==
    \/ disk_schedule_request_store_null(s)
    \/ disk_schedule_request_acquire(s)
    \/ disk_schedule_request_insert(s)
    \/ disk_schedule_request_release(s)

\* The liveness properties read none of last_deadline, arrival and
\* popped_since, so FairSpecDisk leaves them unrecorded.
\* Scheduling: every thread that can run is eventually run, and a thread
\* waiting in lock_acquire gets the lock once the holders before it release it
\* (sema_up wakes the waiters of a semaphore in order of arrival).  A caller
\* is free never to call disk_schedule_request again.
FairSpecDisk ==
    /\ InitDiskFair
    /\ [][DiskNext]_vars
    /\ SF_vars(disk_process)
    /\ \A s \in Submitters : SF_vars(disk_schedule_request_running(s))

(***************************************************************************)
(* Properties of the disk scheduler.                                       *)
(***************************************************************************)
InQueue(a) == a \in Range(disk_queue)

Deadline(a) == heap[a].deadline

\* position of a queued request in the order of insertion
ArrivalPos(a) == CHOOSE i \in 1..Len(arrival) : arrival[i] = a

\* the step in which the worker removes the front of the queue
Dequeues == w_pc = "check" /\ w_pc' = "release_pop"

\* C1 (as stated): whatever the interleaving of submitters and worker, the
\* sequence of requests the worker services has non-decreasing deadlines: each
\* request it dequeues has a deadline at least that of the one dequeued before.
C1_ServiceOrderNonDecreasing ==
    [][Dequeues => Deadline(w_req') >= last_deadline]_vars

\* C1 (amended): no request is serviced after a request with a strictly larger
\* deadline that was dequeued while it was already in the queue: for every
\* queued request, everything dequeued since its insertion had a deadline less
\* than or equal to its own.
C1_NoLargerDequeuedWhileQueued ==
    \A a \in Range(disk_queue) : popped_since[a] <= Deadline(a)

\* a request is queued and the worker has dequeued another one since it was inserted
C1_Witness ==
    \E a \in Range(disk_queue) : popped_since[a] > 0 /\ w_pc = "service"

\* C2: of two requests with equal deadlines, the one inserted first is
\* serviced first: whenever the worker dequeues a request, no request that
\* stays in the queue has the same deadline and an earlier insertion.
C2_TiesFIFO ==
    [][Dequeues =>
         \A a \in Range(disk_queue') :
            Deadline(a) = Deadline(w_req') => ArrivalPos(w_req') < ArrivalPos(a)]_vars

\* the worker has dequeued a request while one with the same deadline, inserted later, is queued
C2_Witness ==
    /\ w_pc = "release_pop"
    /\ \E a \in Range(disk_queue) : Deadline(a) = Deadline(w_req)

\* C3: in every reachable state the queue is sorted in ascending deadline
\* order: a before b in the queue implies a.deadline <= b.deadline.
C3_QueueSorted ==
    \A i, j \in 1..Len(disk_queue) :
        i < j => Deadline(disk_queue[i]) <= Deadline(disk_queue[j])

\* a request was inserted in front of one that was inserted before it
C3_Witness ==
    /\ Len(disk_queue) >= 2
    /\ ArrivalPos(disk_queue[1]) > ArrivalPos(disk_queue[2])
    /\ Deadline(disk_queue[1]) < Deadline(disk_queue[2])

\* no disk_schedule_request call is in progress
SubmittersIdle == \A s \in Submitters : s_pc[s] = "idle"

\* the worker has finished the service of request a (printf and timer_sleep done)
Serviced(a) == w_req = a /\ w_pc = "free"

\* C4: if N requests are submitted and the submissions then stop, the worker
\* services exactly those N requests (inserted minus serviced reaches 0), and
\* the queue becomes empty and stays empty.
C4_QueueDrains ==
    <>[]SubmittersIdle => <>[](disk_queue = <<>> /\ outstanding = 0 /\ w_req = NULL)

\* the submissions have stopped and the worker has just serviced the last request
C4_Witness ==
    /\ SubmittersIdle
    /\ disk_queue = <<>>
    /\ outstanding = 0
    /\ w_pc = "free"

Fields(a) == <<heap[a].sector, heap[a].is_write, heap[a].data, heap[a].deadline>>

\* the worker has dequeued request a and has not freed it yet
HeldByWorker(a) == w_req = a /\ w_pc \in {"release_pop", "service", "free"}

\* the request record at address a has been enqueued and not yet freed
Enqueued(a) == InQueue(a) \/ HeldByWorker(a)

LifecycleState ==
    /\ ~use_after_free
    /\ ~double_free
    /\ \A i, j \in 1..Len(disk_queue) : i # j => disk_queue[i] # disk_queue[j]
    /\ \A a \in Addrs : Enqueued(a) => heap[a].live
    /\ \A a \in Addrs : ~(InQueue(a) /\ HeldByWorker(a))

LifecycleStep ==
    \A a \in Addrs :
        /\ (Enqueued(a) /\ heap'[a].live) => Fields(a)' = Fields(a)
        /\ (InQueue(a) /\ ~InQueue(a)') => (w_pc = "check" /\ w_req' = a /\ HeldByWorker(a)')
        /\ (~InQueue(a) /\ InQueue(a)') =>
               (~HeldByWorker(a) /\ \E s \in Submitters : s_pc[s] = "insert" /\ s_req[s] = a)
        /\ (heap[a].live /\ ~heap'[a].live) => (w_pc = "free" /\ w_req = a)
        /\ (HeldByWorker(a) /\ ~HeldByWorker(a)') => (w_pc = "free" /\ ~heap'[a].live)

InCritical ==
    {s \in Submitters : s_pc[s] \in {"insert", "release"}}
        \cup (IF w_pc \in {"check", "release_pop", "release_empty"} THEN {Worker} ELSE {})

\* C7: the worker never holds disk_lock during its service delay or its idle
\* sleep, the lock is held exactly by a thread that is at its insert or at
\* its check-and-remove-front, and at most one thread is there at a time.
C7_LockDiscipline ==
    /\ w_pc \in {"acquire", "service", "free", "idle_sleep"} => disk_lock # Worker
    /\ \A t \in Submitters \cup {Worker} : disk_lock = t <=> t \in InCritical
    /\ Cardinality(InCritical) <= 1

\* the worker is in its service delay while a submitter holds the lock for its insert
C7_Witness ==
    /\ w_pc = "service"
    /\ \E s \in Submitters : s_pc[s] = "insert" /\ disk_lock = s

\* C8: when the allocation of the request record fails, the caller gets an
\* explicit failure result: the call neither stores through the null pointer
\* nor ends in a fault, and the queue is as it was.
C8_AllocFailureSurfaced ==
    /\ ~null_store
    /\ \A s \in Submitters : s_pc[s] # "fault"

(***************************************************************************)
(* Properties of file_read_at.                                             *)
(***************************************************************************)
\* every offset below the length of the file maps to a sector
FullyMapped == \A pos \in 0..(inode_len - 1) : byte_to_sector(pos) # -1

\* the byte at offset pos of the file
FileByte(pos) == sector_data(byte_to_sector(pos), pos % BLOCK_SECTOR_SIZE)

\* C9: on a fully mapped file, file_read_at (buf, size, offset) returns
\* min (size, length - offset) when offset < length, and 0 when offset >=
\* length or size is 0.
C9_ReadTruncation ==
    (r_pc = "ret" /\ FullyMapped) =>
        r_bytes_read = (IF r_arg.file_ofs < inode_len
                        THEN Min2(r_arg.size, inode_len - r_arg.file_ofs)
                        ELSE 0)

\* a read that starts inside the file, crosses a sector boundary and is cut at the end of the file
C9_Witness ==
    /\ r_pc = "ret"
    /\ FullyMapped
    /\ r_arg.file_ofs < inode_len
    /\ r_arg.file_ofs + r_arg.size > inode_len
    /\ r_bytes_read = inode_len - r_arg.file_ofs
    /\ r_arg.file_ofs \div BLOCK_SECTOR_SIZE # (inode_len - 1) \div BLOCK_SECTOR_SIZE

\* C10: when file_read_at returns n, bytes [0, n) of the caller's buffer are
\* bytes [offset, offset + n) of the file.
C10_BufferHoldsFileBytes ==
    r_pc = "ret" =>
        \A i \in 0..(r_bytes_read - 1) : r_mem[i] = FileByte(r_arg.file_ofs + i)

\* the entries of cache_log that are read-ahead hints
Hints == {i \in 1..Len(cache_log) : cache_log[i][1] = "cache_read_ahead"}

\* the entries of cache_log that are sector fetches
Fetches == {i \in 1..Len(cache_log) : cache_log[i][1] = "buffer_cache_read"}

\* C11: during one file_read_at call every sector consumed triggers exactly
\* one read-ahead hint, issued right after the fetch of that sector, and the
\* hint names the sector that follows the one just fetched (sectors 0, 1, 2
\* consumed give hints 1, 2, 3); a pass of the loop that consumes nothing
\* issues no hint.
C11_HintNamesNextSector ==
    /\ \A i \in Fetches :
          /\ i + 1 \in Hints
          /\ cache_log[i + 1][2] = cache_log[i][2] + 1
    /\ \A i \in Hints : i - 1 \in Fetches
    /\ Cardinality(Hints) <= r_bytes_read

\* the bytes of memory, counted from the caller's buffer, that file_read_at has written
Written == {i \in MemIndex : r_mem[i] # Junk}

\* C19: file_read_at (buf, size, offset) writes only bytes [0, n) of the
\* caller's buffer, n <= size being the value it returns: at no point of the
\* sector loop has a byte at index >= size been written, although the cache
\* delivers whole sectors.
C19_WritesWithinSize ==
    /\ r_pc \in {"loop", "ret"} => \A i \in Written : i < r_arg.size
    /\ r_pc = "ret" => (r_bytes_read <= r_arg.size /\ \A i \in Written : i < r_bytes_read)

\* the worker takes a step
WorkerSteps == w_pc' # w_pc

\* C18: every dequeue removes the front of the queue, and the deadline of the
\* removed request is at most every deadline still in the queue at that
\* instant; the queue shrinks in no other step; when the worker finds the
\* queue empty it removes nothing and goes to its idle sleep before it checks
\* the queue again.
C18_DequeueFrontOrIdle ==
    [][/\ Dequeues =>
            /\ disk_queue # <<>>
            /\ w_req' = Head(disk_queue)
            /\ disk_queue' = Tail(disk_queue)
            /\ \A a \in Range(disk_queue') : Deadline(w_req') <= Deadline(a)
       /\ Len(disk_queue') < Len(disk_queue) => Dequeues
       /\ (w_pc = "check" /\ disk_queue = <<>> /\ WorkerSteps) =>
            (w_pc' = "release_empty" /\ w_req' = NULL /\ disk_queue' = disk_queue)
       /\ (w_pc = "release_empty" /\ WorkerSteps) =>
            (w_pc' = "idle_sleep" /\ w_req' = NULL /\ disk_queue' = disk_queue)
       /\ (w_pc' = "check" /\ WorkerSteps) => w_pc = "acquire"
       /\ (w_pc' = "acquire" /\ WorkerSteps) => w_pc \in {"idle_sleep", "free"}]_vars

\* the worker has dequeued the front while a request with a larger deadline,
\* inserted before it, stays queued
C18_Witness ==
    /\ w_pc = "release_pop"
    /\ disk_queue # <<>>
    /\ Deadline(w_req) < Deadline(disk_queue[1])
    /\ popped_since[disk_queue[1]] = Deadline(w_req)
    /\ outstanding = 2

(***************************************************************************)
(* Properties of the timed disk scheduler.                                 *)
(***************************************************************************)
\* C17 (as stated): a request submitted with a deadline smaller than every
\* other pending request begins service within one idle interval (10 ticks)
\* of its disk_schedule_request returning, in every state of the worker loop:
\* as long as it waits in the queue, it has waited at most IdleTicks.
C17_UrgentWithinIdleInterval ==
    u_req # NULL => u_wait <= IdleTicks

\* C17 (amended): such a request begins service within one idle interval if
\* the worker held no dequeued request when it was inserted, and within one
\* service delay (100 ticks) otherwise.
C17_UrgentWithinIdleOrServiceDelay ==
    u_req # NULL => u_wait <= (IF u_busy THEN ServiceTicks ELSE IdleTicks)

\* an urgent request, inserted while the worker was in its service delay, has
\* waited a whole service delay and the worker is about to dequeue it
C17_Witness ==
    /\ u_req # NULL
    /\ u_busy
    /\ u_wait = ServiceTicks
    /\ w_pc = "check"
    /\ Head(disk_queue) = u_req

(***************************************************************************)
(* Properties of the file handle.                                          *)
(***************************************************************************)
\* the step is a call of the function named op (every call records itself in h_op)
Calls(op) == h_op'.op = op /\ vars' # vars

\* the calls to function fn recorded in a log
CallsTo(log, fn) == {i \in 1..Len(log) : log[i][1] = fn}

\* C12: for a single handle, each file_read and each file_write advances pos
\* by exactly the byte count it returns and changes nothing else of any
\* handle; file_seek (p) with p >= 0 followed by file_tell on the same handle
\* returns p.
C12_PosAdvancesByBytesReturned ==
    [][/\ (Calls("file_read") \/ Calls("file_write")) =>
            /\ files' = [files EXCEPT ![h_op'.file].pos = files[h_op'.file].pos + h_op'.ret]
            /\ h_op'.ret >= 0
            /\ UNCHANGED <<inode_open_cnt, inode_deny_cnt, asserted>>
       /\ (h_op.op = "file_seek" /\ h_op.arg >= 0 /\ Calls("file_tell")
                                 /\ h_op'.file = h_op.file) =>
            h_op'.ret = h_op.arg]_vars

\* a file_read that was cut short by the end of the file has moved the position there
C12_Witness ==
    /\ h_op.op = "file_read"
    /\ h_op.ret = 1
    /\ files[h_op.file].live
    /\ files[h_op.file].pos = inode_len
    /\ \E h \in LiveHandles : h # h_op.file /\ files[h].pos # inode_len

\* C13: file_read_at and file_write_at leave pos and deny_write of every
\* handle unchanged, whatever size and offset they are given; file_tell,
\* file_length, file_deny_write and file_allow_write leave pos unchanged.
C13_PositionFrame ==
    [][/\ (Calls("file_read_at") \/ Calls("file_write_at")) => files' = files
       /\ (Calls("file_tell") \/ Calls("file_length")
             \/ Calls("file_deny_write") \/ Calls("file_allow_write")) =>
            \A h \in Handles : files'[h].pos = files[h].pos]_vars

\* a file_read_at has returned bytes from an offset other than the position
\* of its handle, which denies writes
C13_Witness ==
    /\ h_op.op = "file_read_at"
    /\ h_op.ret > 0
    /\ files[h_op.file].live
    /\ files[h_op.file].pos > inode_len
    /\ files[h_op.file].deny_write

\* the live handles that deny writes
Denying == {h \in LiveHandles : files[h].deny_write}

\* C14: after any sequence of file_deny_write, file_allow_write and
\* file_close on any number of handles over the same inode, the number of
\* inode_deny_write calls minus the number of inode_allow_write calls is the
\* number of live handles whose deny_write is true; a file_deny_write on a
\* handle that already denies and a file_allow_write on one that does not
\* call the inode layer not at all; one file_allow_write clears the denial of
\* its handle however many file_deny_write calls came before.
C14_DenyCountMatchesHandles ==
    /\ [](inode_deny_cnt = Cardinality(Denying))
    /\ [][/\ Calls("file_deny_write") =>
               /\ h_log' = (IF files[h_op'.file].deny_write
                            THEN <<>> ELSE <<<<"inode_deny_write", INODE>>>>)
               /\ files'[h_op'.file].deny_write
          /\ Calls("file_allow_write") =>
               /\ h_log' = (IF files[h_op'.file].deny_write
                            THEN <<<<"inode_allow_write", INODE>>>> ELSE <<>>)
               /\ ~files'[h_op'.file].deny_write]_vars

\* two handles over the inode deny writes, and the last call was a redundant file_deny_write
C14_Witness ==
    /\ Cardinality(Denying) = 2
    /\ inode_deny_cnt = 2
    /\ h_op.op = "file_deny_write"
    /\ h_log = <<>>

\* the calls of a log that go to the inode layer
InodeCalls(log) == SelectSeq(log, LAMBDA c : c[1] \notin {"calloc", "free"})

\* C15: file_close on a non-null handle first withdraws the write-denial
\* (inode_allow_write exactly when deny_write was true), then releases the
\* inode reference exactly once, in that order, and frees the handle;
\* file_close on a null handle calls nothing and changes no state.
C15_CloseOrder ==
    [][Calls("file_close") =>
         IF h_op'.file = NULL
         THEN /\ h_log' = <<>>
              /\ UNCHANGED <<files, inode_open_cnt, inode_deny_cnt, asserted>>
         ELSE /\ InodeCalls(h_log') =
                    (IF files[h_op'.file].deny_write
                     THEN <<<<"inode_allow_write", INODE>>>> ELSE <<>>)
                        \o <<<<"inode_close", INODE>>>>
              /\ inode_open_cnt' = inode_open_cnt - 1
              /\ ~files'[h_op'.file].live
              /\ \A h \in Handles \ {h_op'.file} : files'[h] = files[h]]_vars

\* a handle that denied writes has been closed while another handle still denies them
C15_Witness ==
    /\ h_op.op = "file_close"
    /\ h_op.file # NULL
    /\ Len(h_log) = 3
    /\ h_log[1][1] = "inode_allow_write"
    /\ inode_deny_cnt = 1

\* the block calloc returned in the call recorded by a log
Allocated(log) == log[CHOOSE i \in CallsTo(log, "calloc") : TRUE][2]

\* C16: file_open returns a null pointer exactly when the inode is absent or
\* the allocation fails; on such a failure with an inode present the inode
\* reference is released exactly once and no handle stays allocated; on
\* success the handle has pos 0 and deny_write false and the reference is
\* kept.  The same holds for file_reopen with the reference inode_reopen
\* returned, and file_reopen leaves pos and deny_write of the original handle
\* unchanged.  In every state each open reference belongs to a live handle.
C16_OpenFailureReleases ==
    /\ [](inode_open_cnt = Cardinality(LiveHandles))
    /\ [][(Calls("file_open") \/ Calls("file_reopen")) =>
            LET inode == h_op'.arg
                ret   == h_op'.ret
            IN  /\ Cardinality(CallsTo(h_log', "calloc")) = 1
                /\ (ret = NULL) <=> (inode = NULL \/ Allocated(h_log') = NULL)
                /\ Calls("file_reopen") =>
                       (inode = files[h_op'.file].inode /\ h_log'[1] = <<"inode_reopen", inode>>)
                /\ ret = NULL =>
                       /\ files' = files
                       /\ inode_open_cnt' = inode_open_cnt
                       /\ inode # NULL => Cardinality(CallsTo(h_log', "inode_close")) = 1
                /\ ret # NULL =>
                       /\ ret = Allocated(h_log')
                       /\ ~files[ret].live
                       /\ files' = [files EXCEPT ![ret] =
                                       [live |-> TRUE, inode |-> inode, pos |-> 0, deny_write |-> FALSE]]
                       /\ inode_open_cnt' = inode_open_cnt + 1
                       /\ CallsTo(h_log', "inode_close") = {}]_vars

\* a file_reopen of a handle with a position and a write-denial has failed in calloc
C16_Witness ==
    /\ h_op.op = "file_reopen"
    /\ h_op.ret = NULL
    /\ h_op.arg = INODE
    /\ files[h_op.file].pos > 0
    /\ files[h_op.file].deny_write
    /\ Cardinality(LiveHandles) = 1

\* C20: the position of every handle is >= 0 in every reachable state, after
\* any sequence of file_open, file_seek, file_read, file_write, file_read_at
\* and file_write_at; a file_seek with a negative new_pos fails its assertion
\* and does not store the value.
C20_PosNeverNegative ==
    /\ \A h \in Handles : files[h].pos >= 0
    /\ (h_op.op = "file_seek" /\ h_op.arg < 0) => asserted
    /\ asserted => (h_op.op = "file_seek" /\ h_op.arg < 0)

\* a file_seek with a negative new_pos has panicked the kernel; the handle
\* keeps the position it had, the largest off_t
C20_Witness ==
    /\ asserted
    /\ h_op.op = "file_seek"
    /\ h_op.arg = -1
    /\ files[h_op.file].pos = OFF_T_MAX

====
